---- MODULE Spec2Model ----
(***************************************************************************)
(* date-diff: a wasm shim over the jiff date/time library.  Three exported *)
(* operations (diff, duration, list_time_zones) and the translation of the *)
(* loosely typed Options object into a jiff SpanPrinter configuration.     *)
(*                                                                         *)
(* Rust strings are modelled as sequences of one-character strings, so     *)
(* that matching is exact equality of character sequences and the Debug    *)
(* rendering ({x:?}) used in the error messages is computed character by   *)
(* character.                                                              *)
(***************************************************************************)
EXTENDS Integers, Sequences, FiniteSets, TLC

VARIABLES
    op,       \* the exported operation being executed, or "none"
    args,     \* its arguments
    pc,       \* the statement it is at: "idle", a step name, or "return"
    locals,   \* the let-bindings of the running call, each <<>> until bound
    outcome,  \* <<>> while running, <<Result>> once the call has returned
    log,      \* history: the steps the running call has executed, in order
    prev,     \* history: one earlier duration call, with its outcome
    now       \* the host's wall clock (jiff can read it; the shim never does)

vars == <<op, args, pc, locals, outcome, log, prev, now>>

(***************************************************************************)
(* Bounds of the model.                                                    *)
(***************************************************************************)
\* padding values tried are 0..MaxPadding and the u8 maximum
MaxPadding == 1

\* days the wall clock advances during a run
MaxTicks == 2

\* u8::MAX, the largest value of Options::padding
U8Max == 255

(***************************************************************************)
(* Result<T, JsError>: Ok carries one value, Err carries the message.      *)
(***************************************************************************)
Ok(v) == [ok |-> TRUE, val |-> <<v>>, err |-> <<>>]

Err(e) == [ok |-> FALSE, val |-> <<>>, err |-> e]

(***************************************************************************)
(* The closed sets documented on the Options struct (#[tsify(type = ...)]).*)
(***************************************************************************)
AllowedSpacing ==
    { <<"n", "o", "n", "e">>, <<"b", "e", "t", "w", "e", "e", "n", "-", "u", "n", "i", "t", "s", "-", "a", "n", "d", "-", "d", "e", "s", "i", "g", "n", "a", "t", "o", "r", "s">>, <<"b", "e", "t", "w", "e", "e", "n", "-", "u", "n", "i", "t", "s">> }

AllowedDesignator ==
    { <<"s", "h", "o", "r", "t">>, <<"c", "o", "m", "p", "a", "c", "t">>, <<"v", "e", "r", "b", "o", "s", "e">>, <<"h", "u", "m", "a", "n", "-", "t", "i", "m", "e">> }

AllowedFractionalUnit ==
    { <<"h", "o", "u", "r">>, <<"m", "i", "n", "u", "t", "e">>, <<"s", "e", "c", "o", "n", "d">>, <<"m", "i", "l", "l", "i", "s", "e", "c", "o", "n", "d">>, <<"m", "i", "c", "r", "o", "s", "e", "c", "o", "n", "d">> }

AllowedZeroUnit ==
    { <<"y", "e", "a", "r">>, <<"m", "o", "n", "t", "h">>, <<"w", "e", "e", "k">>, <<"d", "a", "y">>, <<"h", "o", "u", "r">>, <<"m", "i", "n", "u", "t", "e">>, <<"s", "e", "c", "o", "n", "d">>,
      <<"m", "i", "l", "l", "i", "s", "e", "c", "o", "n", "d">>, <<"m", "i", "c", "r", "o", "s", "e", "c", "o", "n", "d">>, <<"n", "a", "n", "o", "s", "e", "c", "o", "n", "d">> }

AllowedDirection ==
    { <<"a", "u", "t", "o">>, <<"s", "i", "g", "n">>, <<"s", "u", "f", "f", "i", "x">>, <<"f", "o", "r", "c", "e", "-", "s", "i", "g", "n">> }

(***************************************************************************)
(* format!("{x:?}"): <str as Debug>::fmt writes a double quote, every      *)
(* character through char::escape_debug, and a closing double quote.       *)
(* Double quote, backslash, tab, carriage return and line feed are written *)
(* as a backslash escape; printable characters are written as they are.    *)
(***************************************************************************)
escape_debug(c) ==
    CASE c = "\"" -> <<"\\", "\"">>
      [] c = "\\" -> <<"\\", "\\">>
      [] c = "\n" -> <<"\\", "n">>
      [] c = "\t" -> <<"\\", "t">>
      [] c = "\r" -> <<"\\", "r">>
      [] OTHER    -> <<c>>

RECURSIVE escape_all(_)
escape_all(s) ==
    IF s = <<>> THEN <<>> ELSE escape_debug(Head(s)) \o escape_all(Tail(s))

\* A plausible slip: the message is built without the offending value.
fmt_debug_dropped(x) == <<"\"", "\"">>

fmt_debug(x) == <<"\"">> \o escape_all(x) \o <<"\"">>

(***************************************************************************)
(* The five match expressions of PrinterOptions::try_from.                 *)
(***************************************************************************)
match_spacing(x) ==
    CASE x = <<"n", "o", "n", "e">> -> Ok("Spacing::None")
      [] x = <<"b", "e", "t", "w", "e", "e", "n", "-", "u", "n", "i", "t", "s", "-", "a", "n", "d", "-", "d", "e", "s", "i", "g", "n", "a", "t", "o", "r", "s">> -> Ok("Spacing::BetweenUnitsAndDesignators")
      [] x = <<"b", "e", "t", "w", "e", "e", "n", "-", "u", "n", "i", "t", "s">> -> Ok("Spacing::BetweenUnits")
      [] OTHER -> Err(<<"I", "n", "v", "a", "l", "i", "d", " ", "s", "p", "a", "c", "i", "n", "g", " ", "o", "p", "t", "i", "o", "n", ":", " ">> \o fmt_debug(x))

match_designator(x) ==
    CASE x = <<"s", "h", "o", "r", "t">> -> Ok("Designator::Short")
      [] x = <<"c", "o", "m", "p", "a", "c", "t">> -> Ok("Designator::Compact")
      [] x = <<"v", "e", "r", "b", "o", "s", "e">> -> Ok("Designator::Verbose")
      [] x = <<"h", "u", "m", "a", "n", "-", "t", "i", "m", "e">> -> Ok("Designator::HumanTime")
      [] OTHER -> Err(<<"I", "n", "v", "a", "l", "i", "d", " ", "d", "e", "s", "i", "g", "n", "a", "t", "o", "r", " ", "o", "p", "t", "i", "o", "n", ":", " ">> \o fmt_debug(x))

\* Option<String>: <<>> is None, <<s>> is Some(s); the Ok value is Option<FractionalUnit>
\* A plausible slip: an empty string read as "not given".
match_fractional_unit_empty_is_none(o) ==
    CASE o = <<>> -> Ok(<<>>)
      [] o = <<<<>>>> -> Ok(<<>>)
      [] o = <<<<"h", "o", "u", "r">>>> -> Ok(<<"FractionalUnit::Hour">>)
      [] o = <<<<"m", "i", "n", "u", "t", "e">>>> -> Ok(<<"FractionalUnit::Minute">>)
      [] o = <<<<"s", "e", "c", "o", "n", "d">>>> -> Ok(<<"FractionalUnit::Second">>)
      [] o = <<<<"m", "i", "l", "l", "i", "s", "e", "c", "o", "n", "d">>>> -> Ok(<<"FractionalUnit::Millisecond">>)
      [] o = <<<<"m", "i", "c", "r", "o", "s", "e", "c", "o", "n", "d">>>> -> Ok(<<"FractionalUnit::Microsecond">>)
      [] OTHER -> Err(<<"I", "n", "v", "a", "l", "i", "d", " ", "f", "r", "a", "c", "t", "i", "o", "n", "a", "l", " ", "u", "n", "i", "t", ":", " ">> \o fmt_debug(o[1]))

match_fractional_unit(o) ==
    CASE o = <<>> -> Ok(<<>>)
      [] o = <<<<"h", "o", "u", "r">>>> -> Ok(<<"FractionalUnit::Hour">>)
      [] o = <<<<"m", "i", "n", "u", "t", "e">>>> -> Ok(<<"FractionalUnit::Minute">>)
      [] o = <<<<"s", "e", "c", "o", "n", "d">>>> -> Ok(<<"FractionalUnit::Second">>)
      [] o = <<<<"m", "i", "l", "l", "i", "s", "e", "c", "o", "n", "d">>>> -> Ok(<<"FractionalUnit::Millisecond">>)
      [] o = <<<<"m", "i", "c", "r", "o", "s", "e", "c", "o", "n", "d">>>> -> Ok(<<"FractionalUnit::Microsecond">>)
      [] OTHER -> Err(<<"I", "n", "v", "a", "l", "i", "d", " ", "f", "r", "a", "c", "t", "i", "o", "n", "a", "l", " ", "u", "n", "i", "t", ":", " ">> \o fmt_debug(o[1]))

match_zero_unit(x) ==
    CASE x = <<"y", "e", "a", "r">> -> Ok("Unit::Year")
      [] x = <<"m", "o", "n", "t", "h">> -> Ok("Unit::Month")
      [] x = <<"w", "e", "e", "k">> -> Ok("Unit::Week")
      [] x = <<"d", "a", "y">> -> Ok("Unit::Day")
      [] x = <<"h", "o", "u", "r">> -> Ok("Unit::Hour")
      [] x = <<"m", "i", "n", "u", "t", "e">> -> Ok("Unit::Minute")
      [] x = <<"s", "e", "c", "o", "n", "d">> -> Ok("Unit::Second")
      [] x = <<"m", "i", "l", "l", "i", "s", "e", "c", "o", "n", "d">> -> Ok("Unit::Millisecond")
      [] x = <<"m", "i", "c", "r", "o", "s", "e", "c", "o", "n", "d">> -> Ok("Unit::Microsecond")
      [] x = <<"n", "a", "n", "o", "s", "e", "c", "o", "n", "d">> -> Ok("Unit::Nanosecond")
      [] OTHER -> Err(<<"I", "n", "v", "a", "l", "i", "d", " ", "z", "e", "r", "o", " ", "u", "n", "i", "t", ":", " ">> \o fmt_debug(x))

\* lower case, with blank and underscore read as the separator
fold_char(c) ==
    CASE c = "A" -> "a" [] c = "U" -> "u" [] c = "T" -> "t" [] c = "O" -> "o"
      [] c = "S" -> "s" [] c = "I" -> "i" [] c = "G" -> "g" [] c = "N" -> "n"
      [] c = "F" -> "f" [] c = "X" -> "x" [] c = "R" -> "r" [] c = "C" -> "c"
      [] c = "E" -> "e" [] c = "H" -> "h" [] c = "B" -> "b" [] c = "W" -> "w"
      [] c = "Y" -> "y" [] c = "_" -> "-" [] c = " " -> "-"
      [] OTHER -> c

RECURSIVE trim_start(_)
trim_start(s) ==
    IF s # <<>> /\ Head(s) = "-" THEN trim_start(Tail(s)) ELSE s

RECURSIVE trim_end(_)
trim_end(s) ==
    IF s # <<>> /\ s[Len(s)] = "-" THEN trim_end(SubSeq(s, 1, Len(s) - 1)) ELSE s

\* the value as a lenient matcher would read it: case, surrounding blanks and
\* the choice of separator ignored
lenient(s) == trim_end(trim_start([i \in 1 .. Len(s) |-> fold_char(s[i])]))

\* A plausible slip: matching after trimming, lower-casing and unifying separators.
match_direction_lenient(x) ==
    CASE lenient(x) = <<"a", "u", "t", "o">> -> Ok("Direction::Auto")
      [] lenient(x) = <<"s", "i", "g", "n">> -> Ok("Direction::Sign")
      [] lenient(x) = <<"s", "u", "f", "f", "i", "x">> -> Ok("Direction::Suffix")
      [] lenient(x) = <<"f", "o", "r", "c", "e", "-", "s", "i", "g", "n">> -> Ok("Direction::ForceSign")
      [] OTHER -> Err(<<"I", "n", "v", "a", "l", "i", "d", " ", "d", "i", "r", "e", "c", "t", "i", "o", "n", ":", " ">> \o fmt_debug(x))

match_direction(x) ==
    CASE x = <<"a", "u", "t", "o">> -> Ok("Direction::Auto")
      [] x = <<"s", "i", "g", "n">> -> Ok("Direction::Sign")
      [] x = <<"s", "u", "f", "f", "i", "x">> -> Ok("Direction::Suffix")
      [] x = <<"f", "o", "r", "c", "e", "-", "s", "i", "g", "n">> -> Ok("Direction::ForceSign")
      [] OTHER -> Err(<<"I", "n", "v", "a", "l", "i", "d", " ", "d", "i", "r", "e", "c", "t", "i", "o", "n", ":", " ">> \o fmt_debug(x))

(***************************************************************************)
(* SpanPrinter::new() and the builder chain of try_from.  The defaults are *)
(* those of jiff's SpanPrinter; padding is an Option<u8> there.            *)
(***************************************************************************)
SpanPrinterNew ==
    [ spacing |-> "Spacing::BetweenUnits",
      comma_after_designator |-> FALSE,
      designator |-> "Designator::Compact",
      hours_minutes_seconds |-> FALSE,
      padding |-> <<>>,
      zero_unit |-> "Unit::Second",
      direction |-> "Direction::Auto",
      fractional |-> <<>> ]

\* A plausible slip: one call of the builder chain (.padding) left out.
build_printer_without_padding(value, spacing, designator, fractional_unit, zero_unit, direction) ==
    [ SpanPrinterNew EXCEPT
        !.spacing = spacing,
        !.comma_after_designator = value.comma_after_designator,
        !.designator = designator,
        !.hours_minutes_seconds = value.hours_minutes_seconds,
        !.zero_unit = zero_unit,
        !.direction = direction,
        !.fractional = fractional_unit ]

build_printer(value, spacing, designator, fractional_unit, zero_unit, direction) ==
    [ SpanPrinterNew EXCEPT
        !.spacing = spacing,
        !.comma_after_designator = value.comma_after_designator,
        !.designator = designator,
        !.hours_minutes_seconds = value.hours_minutes_seconds,
        !.padding = <<value.padding>>,
        !.zero_unit = zero_unit,
        !.direction = direction,
        !.fractional = fractional_unit ]

\* A plausible slip: every field is matched before any error is returned, so
\* the error of the last invalid field wins.
try_from_last_error(value) ==
    LET spacing == match_spacing(value.spacing)
        designator == match_designator(value.designator)
        fractional_unit == match_fractional_unit(value.fractional_unit)
        zero_unit == match_zero_unit(value.zero_unit)
        direction == match_direction(value.direction)
    IN  IF ~direction.ok THEN Err(direction.err)
        ELSE IF ~zero_unit.ok THEN Err(zero_unit.err)
        ELSE IF ~fractional_unit.ok THEN Err(fractional_unit.err)
        ELSE IF ~designator.ok THEN Err(designator.err)
        ELSE IF ~spacing.ok THEN Err(spacing.err)
        ELSE Ok(build_printer(value, spacing.val[1], designator.val[1],
                              fractional_unit.val[1], zero_unit.val[1],
                              direction.val[1]))

(***************************************************************************)
(* impl TryFrom<Options> for PrinterOptions.  Each match ends in `?`, so   *)
(* the first Err returns from the function.                                *)
(***************************************************************************)
try_from(value) ==
    LET spacing == match_spacing(value.spacing) IN
    IF ~spacing.ok THEN Err(spacing.err) ELSE
    LET designator == match_designator(value.designator) IN
    IF ~designator.ok THEN Err(designator.err) ELSE
    LET fractional_unit == match_fractional_unit(value.fractional_unit) IN
    IF ~fractional_unit.ok THEN Err(fractional_unit.err) ELSE
    LET zero_unit == match_zero_unit(value.zero_unit) IN
    IF ~zero_unit.ok THEN Err(zero_unit.err) ELSE
    LET direction == match_direction(value.direction) IN
    IF ~direction.ok THEN Err(direction.err) ELSE
    Ok(build_printer(value, spacing.val[1], designator.val[1],
                     fractional_unit.val[1], zero_unit.val[1], direction.val[1]))

(***************************************************************************)
(* Inputs of the translation: strings the caller may send that are not in  *)
(* the closed sets.  Near misses differ from an allowed value in case,     *)
(* whitespace or separator; the others are empty or hold characters that   *)
(* the Debug rendering escapes.                                            *)
(***************************************************************************)
EscapedStrings == { <<>>, <<"q", "\"", "\\">>, <<"\n">> }

OtherSpacing == { <<"N", "o", "n", "e">>, <<"b", "e", "t", "w", "e", "e", "n", " ", "u", "n", "i", "t", "s">> } \cup EscapedStrings

OtherDesignator == { <<"S", "H", "O", "R", "T">> } \cup EscapedStrings

OtherFractionalUnit == { <<"n", "a", "n", "o", "s", "e", "c", "o", "n", "d">>, <<"d", "a", "y">> } \cup EscapedStrings

OtherZeroUnit == { <<"Y", "e", "a", "r">> } \cup EscapedStrings

OtherDirection == { <<" ", "a", "u", "t", "o">>, <<"f", "o", "r", "c", "e", "_", "s", "i", "g", "n">> } \cup EscapedStrings

Paddings == (0 .. MaxPadding) \cup { U8Max }

Some(S) == { <<x>> : x \in S }

OptionsInputs ==
    [ spacing : AllowedSpacing \cup OtherSpacing,
      comma_after_designator : BOOLEAN,
      designator : AllowedDesignator \cup OtherDesignator,
      hours_minutes_seconds : BOOLEAN,
      fractional_unit : { <<>> } \cup Some(AllowedFractionalUnit \cup OtherFractionalUnit),
      padding : Paddings,
      zero_unit : AllowedZeroUnit \cup OtherZeroUnit,
      direction : AllowedDirection \cup OtherDirection ]

(***************************************************************************)
(* The jiff calls of diff and duration.  Texts handed to jiff's parsers    *)
(* are whole tokens (TLA+ strings); civil values are records.  The texts   *)
(* tried are dates at midnight and spans of calendar units, for which the  *)
(* civil arithmetic below is the arithmetic jiff performs.                 *)
(***************************************************************************)
Date(y, m, d) == [year |-> y, month |-> m, day |-> d]

Span(sign, y, mo, d) == [sign |-> sign, years |-> y, months |-> mo, days |-> d]

IsLeapYear(y) == (y % 4 = 0 /\ y % 100 # 0) \/ y % 400 = 0

DaysInMonth(y, m) ==
    CASE m = 2 -> IF IsLeapYear(y) THEN 29 ELSE 28
      [] m \in {4, 6, 9, 11} -> 30
      [] OTHER -> 31

\* days since 1970-01-01 of a civil date
DayNumber(date) ==
    LET y == IF date.month <= 2 THEN date.year - 1 ELSE date.year
        era == y \div 400
        yoe == y - era * 400
        mp == IF date.month > 2 THEN date.month - 3 ELSE date.month + 9
        doy == (153 * mp + 2) \div 5 + date.day - 1
        doe == yoe * 365 + yoe \div 4 - yoe \div 100 + doy
    IN  era * 146097 + doe - 719468

\* the civil date of a day number
FromDayNumber(n) ==
    LET z == n + 719468
        era == z \div 146097
        doe == z - era * 146097
        yoe == (doe - doe \div 1460 + doe \div 36524 - doe \div 146096) \div 365
        doy == doe - (365 * yoe + yoe \div 4 - yoe \div 100)
        mp == (5 * doy + 2) \div 153
        d == doy - (153 * mp + 2) \div 5 + 1
        m == IF mp < 10 THEN mp + 3 ELSE mp - 9
        y == yoe + era * 400 + (IF m <= 2 THEN 1 ELSE 0)
    IN  Date(y, m, d)

\* months added with the day constrained to the length of the month
AddMonths(date, n) ==
    LET idx == date.year * 12 + (date.month - 1) + n
        y == idx \div 12
        m == (idx % 12) + 1
        dim == DaysInMonth(y, m)
    IN  Date(y, m, IF date.day <= dim THEN date.day ELSE dim)

InRange(date) == date.year >= -9999 /\ date.year <= 9999

\* Date::checked_add(span): years and months first, then days
checked_add(date, span) ==
    LET moved == AddMonths(date, span.sign * (span.years * 12 + span.months)) IN
    IF ~InRange(moved) THEN Err(<<"failed to add span to date: out of range">>)
    ELSE LET end == FromDayNumber(DayNumber(moved) + span.sign * span.days) IN
         IF ~InRange(end) THEN Err(<<"failed to add span to date: out of range">>)
         ELSE Ok(end)

\* whole months and remaining days from d1 towards d2, counted from d1
MonthsBetween(d1, d2) ==
    LET fwd == DayNumber(d1) <= DayNumber(d2)
        m0 == IF fwd
              THEN (d2.year * 12 + d2.month) - (d1.year * 12 + d1.month)
              ELSE (d1.year * 12 + d1.month) - (d2.year * 12 + d2.month)
        fits(m) == IF fwd THEN DayNumber(AddMonths(d1, m)) <= DayNumber(d2)
                   ELSE DayNumber(AddMonths(d1, -m)) >= DayNumber(d2)
    IN  IF fits(m0) THEN m0 ELSE m0 - 1

\* the span from d1 to d2 balanced up to the largest unit (weeks are not used)
civil_until(largest, d1, d2) ==
    LET n1 == DayNumber(d1)
        n2 == DayNumber(d2)
        sign == IF n1 < n2 THEN 1 ELSE IF n1 > n2 THEN -1 ELSE 0
        months == IF largest \in {"Unit::Year", "Unit::Month"}
                  THEN MonthsBetween(d1, d2) ELSE 0
        mid == DayNumber(AddMonths(d1, sign * months))
        days == IF sign >= 0 THEN n2 - mid ELSE mid - n2
    IN  IF largest = "Unit::Year"
        THEN Span(sign, months \div 12, (months % 12), days)
        ELSE Span(sign, 0, months, days)

\* <DateTime as FromStr>::from_str
parse_DateTime(text) ==
    CASE text = "2024-01-01T00:00:00" -> Ok(Date(2024, 1, 1))
      [] text = "2025-03-15T00:00:00" -> Ok(Date(2025, 3, 15))
      [] OTHER -> Err(<<"failed to parse civil datetime", text>>)

\* <Date as FromStr>::from_str
parse_Date(text) ==
    CASE text = "2024-02-01" -> Ok(Date(2024, 2, 1))
      [] text = "2024-03-01" -> Ok(Date(2024, 3, 1))
      [] OTHER -> Err(<<"failed to parse civil date", text>>)

\* <Span as FromStr>::from_str
parse_Span(text) ==
    CASE text = "P1Y" -> Ok(Span(1, 1, 0, 0))
      [] text = "PT0S" -> Ok(Span(0, 0, 0, 0))
      [] text = "P1M" -> Ok(Span(1, 0, 1, 0))
      [] text = "P400D" -> Ok(Span(1, 0, 0, 400))
      [] text = "-P45D" -> Ok(Span(-1, 0, 0, 45))
      [] text = "P19998Y" -> Ok(Span(1, 19998, 0, 0))
      [] OTHER -> Err(<<"failed to parse span", text>>)

\* jiff::tz::db().available()
TimeZoneDatabase == <<"America/Winnipeg", "UTC">>

TimeZoneNames == { TimeZoneDatabase[i] : i \in 1 .. Len(TimeZoneDatabase) }

\* A plausible slip: an identifier the database does not know read as UTC.
in_tz_or_utc(datetime, time_zone) ==
    IF time_zone \notin TimeZoneNames
    THEN Ok([datetime |-> datetime, time_zone |-> "UTC"])
    ELSE Ok([datetime |-> datetime, time_zone |-> time_zone])

\* DateTime::in_tz(name): the zone is looked up in the database by name
in_tz(datetime, time_zone) ==
    IF time_zone \notin TimeZoneNames
    THEN Err(<<"failed to find time zone in time zone database", time_zone>>)
    ELSE Ok([datetime |-> datetime, time_zone |-> time_zone])

\* Zoned::until((largest, &other)): units above hours need both in one zone
until(zdt, largest, other) ==
    IF largest \in {"Unit::Year", "Unit::Month", "Unit::Week", "Unit::Day"}
       /\ zdt.time_zone # other.time_zone
    THEN Err(<<"computing the span between zoned datetimes requires equal time zones",
               zdt.time_zone, other.time_zone>>)
    ELSE Ok(civil_until(largest, zdt.datetime, other.datetime))

\* A plausible slip: the span balanced up to months only.
rounding_options_months(relative) ==
    [relative |-> relative, largest |-> "Unit::Month"]

\* SpanRound::new().relative(relative).largest(Unit::Year)
rounding_options(relative) ==
    [relative |-> relative, largest |-> "Unit::Year"]

\* Span::round(options): the span is re-balanced from the relative date
round(span, options) ==
    LET end == checked_add(options.relative, span) IN
    IF ~end.ok THEN Err(end.err)
    ELSE Ok(civil_until(options.largest, options.relative, end.val[1]))

\* SpanPrinter::span_to_string: the text jiff lays out for this span under
\* this configuration, identified by the two
span_to_string(printer, span) == [printer |-> printer, span |-> span]

(***************************************************************************)
(* The exported operations, one action per statement.  A statement ending  *)
(* in `?` either binds its value and falls through to the next statement   *)
(* or returns its error.                                                   *)
(***************************************************************************)
\* the statements of diff, in program order
diff_steps ==
    <<"try_from", "parse_start", "in_tz_start", "parse_end", "in_tz_end", "until",
      "span_to_string">>

\* A plausible slip: duration written like diff, with the options translated first.
duration_steps_options_first ==
    <<"try_from", "parse", "parse_relative", "round", "span_to_string">>

\* the statements of duration, in program order
duration_steps ==
    <<"parse", "try_from", "parse_relative", "round", "span_to_string">>

\* the statement after s
Following(steps, s) ==
    steps[(CHOOSE i \in 1 .. Len(steps) : steps[i] = s) + 1]

NoLocals ==
    [ options |-> <<>>, start_datetime |-> <<>>, start_date |-> <<>>,
      end_datetime |-> <<>>, end_date |-> <<>>, diff |-> <<>>, duration |-> <<>>,
      printer |-> <<>>, relative |-> <<>>, rounded |-> <<>> ]

\* texts and options the caller passes
DateTimeTexts == { "2024-01-01T00:00:00", "2025-03-15T00:00:00", "yesterday" }

TimeZoneTexts == { "UTC", "America/Winnipeg", "Not/AZone" }

SpanTexts == { "P1Y", "PT0S", "P1M", "P400D", "-P45D", "P19998Y", "soon" }

DateTexts == { "2024-02-01", "2024-03-01", "2024-02-30" }

OptionsSample ==
    { [ spacing |-> <<"b", "e", "t", "w", "e", "e", "n", "-", "u", "n", "i", "t", "s">>, comma_after_designator |-> FALSE,
        designator |-> <<"c", "o", "m", "p", "a", "c", "t">>, hours_minutes_seconds |-> FALSE,
        fractional_unit |-> <<>>, padding |-> 0, zero_unit |-> <<"s", "e", "c", "o", "n", "d">>,
        direction |-> <<"a", "u", "t", "o">> ],
      [ spacing |-> <<"n", "o", "n", "e">>, comma_after_designator |-> TRUE,
        designator |-> <<"v", "e", "r", "b", "o", "s", "e">>, hours_minutes_seconds |-> TRUE,
        fractional_unit |-> <<<<"h", "o", "u", "r">>>>, padding |-> 2, zero_unit |-> <<"h", "o", "u", "r">>,
        direction |-> <<"f", "o", "r", "c", "e", "-", "s", "i", "g", "n">> ],
      [ spacing |-> <<"b", "e", "t", "w", "e", "e", "n", "-", "u", "n", "i", "t", "s">>, comma_after_designator |-> FALSE,
        designator |-> <<"C", "o", "m", "p", "a", "c", "t">>, hours_minutes_seconds |-> FALSE,
        fractional_unit |-> <<>>, padding |-> 0, zero_unit |-> <<"s", "e", "c", "o", "n", "d">>,
        direction |-> <<"a", "u", "t", "o">> ] }

\* the wall clock when the module is loaded
StartOfRun == Date(2024, 2, 29)

\* `?` on an Err: the function returns it
Fail(e) ==
    /\ outcome' = <<Err(e)>>
    /\ pc' = "return"

\* the next statement of the function
FallThrough(steps) ==
    /\ outcome' = outcome
    /\ pc' = Following(steps, pc)

At(operation, step) ==
    /\ op = operation
    /\ pc = step
    /\ log' = Append(log, step)
    /\ UNCHANGED <<op, args, prev, now>>

CallDiff ==
    /\ pc = "idle"
    /\ \E start \in DateTimeTexts, start_time_zone \in TimeZoneTexts,
          end \in DateTimeTexts, end_time_zone \in TimeZoneTexts,
          options \in OptionsSample :
          args' = [ start |-> start, start_time_zone |-> start_time_zone,
                    end |-> end, end_time_zone |-> end_time_zone,
                    options |-> options ]
    /\ op' = "diff"
    /\ pc' = diff_steps[1]
    /\ locals' = NoLocals
    /\ outcome' = <<>>
    /\ log' = <<>>
    /\ UNCHANGED <<prev, now>>

\* let options = PrinterOptions::try_from(options)?;
DiffTryFrom ==
    /\ At("diff", "try_from")
    /\ LET r == try_from(args.options) IN
       IF r.ok
       THEN locals' = [locals EXCEPT !.options = r.val] /\ FallThrough(diff_steps)
       ELSE locals' = locals /\ Fail(r.err)

\* start.parse::<DateTime>()?
DiffParseStart ==
    /\ At("diff", "parse_start")
    /\ LET r == parse_DateTime(args.start) IN
       IF r.ok
       THEN locals' = [locals EXCEPT !.start_datetime = r.val]
            /\ FallThrough(diff_steps)
       ELSE locals' = locals /\ Fail(r.err)

\* let start_date = ... .in_tz(start_time_zone)?;
DiffInTzStart ==
    /\ At("diff", "in_tz_start")
    /\ LET r == in_tz(locals.start_datetime[1], args.start_time_zone) IN
       IF r.ok
       THEN locals' = [locals EXCEPT !.start_date = r.val] /\ FallThrough(diff_steps)
       ELSE locals' = locals /\ Fail(r.err)

\* end.parse::<DateTime>()?
DiffParseEnd ==
    /\ At("diff", "parse_end")
    /\ LET r == parse_DateTime(args.end) IN
       IF r.ok
       THEN locals' = [locals EXCEPT !.end_datetime = r.val] /\ FallThrough(diff_steps)
       ELSE locals' = locals /\ Fail(r.err)

\* let end_date = ... .in_tz(end_time_zone)?;
DiffInTzEnd ==
    /\ At("diff", "in_tz_end")
    /\ LET r == in_tz(locals.end_datetime[1], args.end_time_zone) IN
       IF r.ok
       THEN locals' = [locals EXCEPT !.end_date = r.val] /\ FallThrough(diff_steps)
       ELSE locals' = locals /\ Fail(r.err)

\* let diff = start_date.until((Unit::Year, &end_date))?;
DiffUntil ==
    /\ At("diff", "until")
    /\ LET r == until(locals.start_date[1], "Unit::Year", locals.end_date[1]) IN
       IF r.ok
       THEN locals' = [locals EXCEPT !.diff = r.val] /\ FallThrough(diff_steps)
       ELSE locals' = locals /\ Fail(r.err)

\* let printer = options.into_printer(); Ok(printer.span_to_string(&diff))
DiffPrint ==
    /\ At("diff", "span_to_string")
    /\ locals' = [locals EXCEPT !.printer = locals.options]
    /\ outcome' = <<Ok(span_to_string(locals.options[1], locals.diff[1]))>>
    /\ pc' = "return"

CallDuration ==
    /\ pc = "idle"
    /\ \E duration \in SpanTexts, relative_date \in {<<>>} \cup Some(DateTexts),
          options \in OptionsSample :
          args' = [ duration |-> duration, relative_date |-> relative_date,
                    options |-> options ]
    /\ op' = "duration"
    /\ pc' = duration_steps[1]
    /\ locals' = NoLocals
    /\ outcome' = <<>>
    /\ log' = <<>>
    /\ UNCHANGED <<prev, now>>

\* let duration: Span = duration.parse()?;
DurationParse ==
    /\ At("duration", "parse")
    /\ LET r == parse_Span(args.duration) IN
       IF r.ok
       THEN locals' = [locals EXCEPT !.duration = r.val]
            /\ FallThrough(duration_steps)
       ELSE locals' = locals /\ Fail(r.err)

\* let options = PrinterOptions::try_from(options)?; let printer = options.into_printer();
DurationTryFrom ==
    /\ At("duration", "try_from")
    /\ LET r == try_from(args.options) IN
       IF r.ok
       THEN locals' = [locals EXCEPT !.options = r.val, !.printer = r.val]
            /\ FallThrough(duration_steps)
       ELSE locals' = locals /\ Fail(r.err)

\* A plausible slip: a relative date that does not parse is treated as absent
\* (.ok() in place of .transpose()?).
DurationParseRelativeLenient ==
    /\ At("duration", "parse_relative")
    /\ outcome' = outcome
    /\ IF args.relative_date = <<>> \/ ~parse_Date(args.relative_date[1]).ok
       THEN locals' = locals /\ pc' = "span_to_string"
       ELSE locals' = [locals EXCEPT !.relative = parse_Date(args.relative_date[1]).val]
            /\ pc' = "round"

\* if let Some(relative) = relative_date.map(|x| x.parse::<Date>()).transpose()?
DurationParseRelative ==
    /\ At("duration", "parse_relative")
    /\ IF args.relative_date = <<>>
       THEN locals' = locals /\ outcome' = outcome /\ pc' = "span_to_string"
       ELSE LET r == parse_Date(args.relative_date[1]) IN
            IF r.ok
            THEN locals' = [locals EXCEPT !.relative = r.val]
                 /\ outcome' = outcome /\ pc' = "round"
            ELSE locals' = locals /\ Fail(r.err)

\* A plausible slip: the span rounded relative to today instead of the date given.
DurationRoundFromToday ==
    /\ At("duration", "round")
    /\ LET r == round(locals.duration[1], rounding_options(now)) IN
       IF r.ok
       THEN locals' = [locals EXCEPT !.rounded = r.val]
            /\ FallThrough(duration_steps)
       ELSE locals' = locals /\ Fail(r.err)

\* duration.round(SpanRound::new().relative(relative).largest(Unit::Year))?
DurationRound ==
    /\ At("duration", "round")
    /\ LET r == round(locals.duration[1], rounding_options(locals.relative[1])) IN
       IF r.ok
       THEN locals' = [locals EXCEPT !.rounded = r.val]
            /\ FallThrough(duration_steps)
       ELSE locals' = locals /\ Fail(r.err)

\* printer.span_to_string(..) in either branch of the if-let, then Ok(output)
DurationPrint ==
    /\ At("duration", "span_to_string")
    /\ locals' = locals
    /\ LET span == IF locals.relative # <<>> THEN locals.rounded[1]
                   ELSE locals.duration[1]
       IN  outcome' = <<Ok(span_to_string(locals.printer[1], span))>>
    /\ pc' = "return"

\* jiff::tz::db().available().map(|x| x.to_string()).collect()
ListTimeZones ==
    /\ pc = "idle"
    /\ op' = "list_time_zones"
    /\ args' = <<>>
    /\ locals' = NoLocals
    /\ log' = <<"available">>
    /\ outcome' = <<Ok(TimeZoneDatabase)>>
    /\ pc' = "return"
    /\ UNCHANGED <<prev, now>>

\* The caller takes the result; everything the call built is dropped.  The
\* history variable prev may keep the arguments and outcome of a duration call.
Return ==
    /\ pc = "return"
    /\ \E keep \in BOOLEAN :
          prev' = IF keep /\ op = "duration"
                  THEN <<[args |-> args, outcome |-> outcome]>>
                  ELSE prev
    /\ op' = "none"
    /\ args' = <<>>
    /\ locals' = NoLocals
    /\ outcome' = <<>>
    /\ log' = <<>>
    /\ pc' = "idle"
    /\ now' = now

\* the wall clock moves on, whatever the module is doing
Tick ==
    /\ DayNumber(now) - DayNumber(StartOfRun) < MaxTicks
    /\ now' = FromDayNumber(DayNumber(now) + 1)
    /\ UNCHANGED <<op, args, pc, locals, outcome, log, prev>>

Init ==
    /\ op = "none"
    /\ args = <<>>
    /\ pc = "idle"
    /\ locals = NoLocals
    /\ outcome = <<>>
    /\ log = <<>>
    /\ prev = <<>>
    /\ now = StartOfRun

Next ==
    \/ CallDiff
    \/ DiffTryFrom
    \/ DiffParseStart
    \/ DiffInTzStart
    \/ DiffParseEnd
    \/ DiffInTzEnd
    \/ DiffUntil
    \/ DiffPrint
    \/ CallDuration
    \/ DurationParse
    \/ DurationTryFrom
    \/ DurationParseRelative
    \/ DurationRound
    \/ DurationPrint
    \/ ListTimeZones
    \/ Return
    \/ Tick

Spec == Init /\ [][Next]_vars

(***************************************************************************)
(* SpecTranslate: PrinterOptions::try_from applied to one Options value.   *)
(***************************************************************************)
InitTranslate ==
    /\ op = "try_from"
    /\ args \in [ options : OptionsInputs ]
    /\ pc = "call"
    /\ locals = NoLocals
    /\ outcome = <<>>
    /\ log = <<>>
    /\ prev = <<>>
    /\ now = StartOfRun

Translate ==
    /\ op = "try_from"
    /\ pc = "call"
    /\ outcome' = <<try_from(args.options)>>
    /\ pc' = "done"
    /\ UNCHANGED <<op, args, locals, log, prev, now>>

NextTranslate == Translate

SpecTranslate == InitTranslate /\ [][NextTranslate]_vars

(***************************************************************************)
(* Vocabulary of the properties.                                           *)
(***************************************************************************)
Contains(hay, needle) ==
    \E i \in 0 .. (Len(hay) - Len(needle)) :
        SubSeq(hay, i + 1, i + Len(needle)) = needle

HasPrefix(s, p) == Len(p) <= Len(s) /\ SubSeq(s, 1, Len(p)) = p

\* the enumerated fields, in the order of their declaration in Options
Fields == <<"spacing", "designator", "fractional_unit", "zero_unit", "direction">>

FieldValid(o, f) ==
    CASE f = "spacing" -> o.spacing \in AllowedSpacing
      [] f = "designator" -> o.designator \in AllowedDesignator
      [] f = "fractional_unit" ->
            o.fractional_unit = <<>> \/ o.fractional_unit[1] \in AllowedFractionalUnit
      [] f = "zero_unit" -> o.zero_unit \in AllowedZeroUnit
      [] f = "direction" -> o.direction \in AllowedDirection

\* the string the caller supplied for a field (of a present fractional_unit)
FieldValue(o, f) ==
    CASE f = "spacing" -> o.spacing
      [] f = "designator" -> o.designator
      [] f = "fractional_unit" -> o.fractional_unit[1]
      [] f = "zero_unit" -> o.zero_unit
      [] f = "direction" -> o.direction

FieldAllowed(f) ==
    CASE f = "spacing" -> AllowedSpacing
      [] f = "designator" -> AllowedDesignator
      [] f = "fractional_unit" -> AllowedFractionalUnit
      [] f = "zero_unit" -> AllowedZeroUnit
      [] f = "direction" -> AllowedDirection

\* the words by which a message names a field
FieldWords(f) ==
    CASE f = "spacing" -> <<"s", "p", "a", "c", "i", "n", "g">>
      [] f = "designator" -> <<"d", "e", "s", "i", "g", "n", "a", "t", "o", "r">>
      [] f = "fractional_unit" -> <<"f", "r", "a", "c", "t", "i", "o", "n", "a", "l", " ", "u", "n", "i", "t">>
      [] f = "zero_unit" -> <<"z", "e", "r", "o", " ", "u", "n", "i", "t">>
      [] f = "direction" -> <<"d", "i", "r", "e", "c", "t", "i", "o", "n">>

InvalidFields(o) == { i \in 1 .. Len(Fields) : ~FieldValid(o, Fields[i]) }

AllValid(o) == InvalidFields(o) = {}

FirstInvalid(o) ==
    Fields[CHOOSE i \in InvalidFields(o) : \A j \in InvalidFields(o) : i <= j]

Translated == op = "try_from" /\ pc = "done"

\* the choice each documented string names
Named ==
    [ spacing |->
        (<<"n", "o", "n", "e">> :> "Spacing::None")
        @@ (<<"b", "e", "t", "w", "e", "e", "n", "-", "u", "n", "i", "t", "s", "-", "a", "n", "d", "-", "d", "e", "s", "i", "g", "n", "a", "t", "o", "r", "s">> :> "Spacing::BetweenUnitsAndDesignators")
        @@ (<<"b", "e", "t", "w", "e", "e", "n", "-", "u", "n", "i", "t", "s">> :> "Spacing::BetweenUnits"),
      designator |->
        (<<"s", "h", "o", "r", "t">> :> "Designator::Short") @@ (<<"c", "o", "m", "p", "a", "c", "t">> :> "Designator::Compact")
        @@ (<<"v", "e", "r", "b", "o", "s", "e">> :> "Designator::Verbose")
        @@ (<<"h", "u", "m", "a", "n", "-", "t", "i", "m", "e">> :> "Designator::HumanTime"),
      fractional_unit |->
        (<<"h", "o", "u", "r">> :> "FractionalUnit::Hour") @@ (<<"m", "i", "n", "u", "t", "e">> :> "FractionalUnit::Minute")
        @@ (<<"s", "e", "c", "o", "n", "d">> :> "FractionalUnit::Second")
        @@ (<<"m", "i", "l", "l", "i", "s", "e", "c", "o", "n", "d">> :> "FractionalUnit::Millisecond")
        @@ (<<"m", "i", "c", "r", "o", "s", "e", "c", "o", "n", "d">> :> "FractionalUnit::Microsecond"),
      zero_unit |->
        (<<"y", "e", "a", "r">> :> "Unit::Year") @@ (<<"m", "o", "n", "t", "h">> :> "Unit::Month")
        @@ (<<"w", "e", "e", "k">> :> "Unit::Week") @@ (<<"d", "a", "y">> :> "Unit::Day")
        @@ (<<"h", "o", "u", "r">> :> "Unit::Hour") @@ (<<"m", "i", "n", "u", "t", "e">> :> "Unit::Minute")
        @@ (<<"s", "e", "c", "o", "n", "d">> :> "Unit::Second") @@ (<<"m", "i", "l", "l", "i", "s", "e", "c", "o", "n", "d">> :> "Unit::Millisecond")
        @@ (<<"m", "i", "c", "r", "o", "s", "e", "c", "o", "n", "d">> :> "Unit::Microsecond")
        @@ (<<"n", "a", "n", "o", "s", "e", "c", "o", "n", "d">> :> "Unit::Nanosecond"),
      direction |->
        (<<"a", "u", "t", "o">> :> "Direction::Auto") @@ (<<"s", "i", "g", "n">> :> "Direction::Sign")
        @@ (<<"s", "u", "f", "f", "i", "x">> :> "Direction::Suffix")
        @@ (<<"f", "o", "r", "c", "e", "-", "s", "i", "g", "n">> :> "Direction::ForceSign") ]

\* the configuration that carries exactly the choices of a valid Options value
Preserved(o) ==
    [ spacing |-> Named.spacing[o.spacing],
      comma_after_designator |-> o.comma_after_designator,
      designator |-> Named.designator[o.designator],
      hours_minutes_seconds |-> o.hours_minutes_seconds,
      padding |-> <<o.padding>>,
      zero_unit |-> Named.zero_unit[o.zero_unit],
      direction |-> Named.direction[o.direction],
      fractional |->
        IF o.fractional_unit = <<>> THEN <<>>
        ELSE <<Named.fractional_unit[o.fractional_unit[1]]>> ]

(***************************************************************************)
(* C1: for every Options value whose enumerated fields are all documented  *)
(* allowed strings (fractional_unit absent or allowed; any booleans, any   *)
(* padding), try_from succeeds and the configuration carries exactly the   *)
(* choices the caller supplied.                                            *)
(***************************************************************************)
C1_ValidOptionsPreserved ==
    (Translated /\ AllValid(args.options)) =>
        /\ outcome[1].ok
        /\ outcome[1].val = <<Preserved(args.options)>>

C1_Witness ==
    /\ Translated
    /\ AllValid(args.options)
    /\ args.options.padding = U8Max
    /\ args.options.fractional_unit = <<<<"m", "i", "l", "l", "i", "s", "e", "c", "o", "n", "d">>>>
    /\ args.options.spacing = <<"b", "e", "t", "w", "e", "e", "n", "-", "u", "n", "i", "t", "s", "-", "a", "n", "d", "-", "d", "e", "s", "i", "g", "n", "a", "t", "o", "r", "s">>
    /\ args.options.comma_after_designator
    /\ outcome[1].ok

\* characters that the Debug rendering writes as a backslash escape
Escaped == { "\"", "\\", "\n", "\t", "\r" }

NoEscaped(s) == \A i \in 1 .. Len(s) : s[i] \notin Escaped

\* reading a backslash escape back
unescape_char(c) ==
    CASE c = "n" -> "\n" [] c = "t" -> "\t" [] c = "r" -> "\r" [] OTHER -> c

RECURSIVE unescape(_)
unescape(s) ==
    IF s = <<>> THEN <<>>
    ELSE IF Head(s) = "\\" /\ Len(s) >= 2
         THEN <<unescape_char(s[2])>> \o unescape(Tail(Tail(s)))
    ELSE <<Head(s)>> \o unescape(Tail(s))

\* the message ends in the Debug form of x: x between double quotes, escaped
EndsInDebugOf(msg, x) ==
    \E i \in 1 .. (Len(msg) - 1) :
        /\ msg[i] = "\""
        /\ msg[Len(msg)] = "\""
        /\ \A j \in 1 .. (i - 1) : msg[j] # "\""
        /\ unescape(SubSeq(msg, i + 1, Len(msg) - 1)) = x
        /\ \A j \in (i + 1) .. (Len(msg) - 1) :
              msg[j] = "\"" => msg[j - 1] = "\\"

LaterFieldsValid(o, i) ==
    [ o EXCEPT
        !.designator = IF i < 2 THEN <<"c", "o", "m", "p", "a", "c", "t">> ELSE @,
        !.fractional_unit = IF i < 3 THEN <<>> ELSE @,
        !.zero_unit = IF i < 4 THEN <<"s", "e", "c", "o", "n", "d">> ELSE @,
        !.direction = IF i < 5 THEN <<"a", "u", "t", "o">> ELSE @ ]

C3_FirstInvalidFieldReported ==
    (Translated /\ Cardinality(InvalidFields(args.options)) >= 2) =>
        LET f == FirstInvalid(args.options)
            i == CHOOSE k \in 1 .. Len(Fields) : Fields[k] = f
        IN  /\ ~outcome[1].ok
            /\ Contains(outcome[1].err, FieldWords(f))
            /\ \A k \in InvalidFields(args.options) \ {i} :
                  ~Contains(outcome[1].err, FieldWords(Fields[k]))
            /\ outcome[1] = try_from(LaterFieldsValid(args.options, i))

C3_Witness ==
    /\ Translated
    /\ InvalidFields(args.options) = {2, 4, 5}
    /\ ~outcome[1].ok
    /\ Contains(outcome[1].err, <<"d", "e", "s", "i", "g", "n", "a", "t", "o", "r">>)

(***************************************************************************)
(* C8: an absent fractional_unit with all other enumerated fields valid    *)
(* translates to a configuration with no fractional unit; a present one    *)
(* must be hour, minute, second, millisecond or microsecond, and any other *)
(* present value (the empty string, nanosecond, day, ...) fails the        *)
(* translation instead of being read as absent.                            *)
(***************************************************************************)
OthersValid(o) == InvalidFields(o) \subseteq {3}

C8_FractionalUnitOptional ==
    Translated =>
        LET o == args.options IN
        /\ (OthersValid(o) /\ o.fractional_unit = <<>>) =>
              outcome[1].ok /\ outcome[1].val[1].fractional = <<>>
        /\ (OthersValid(o) /\ o.fractional_unit # <<>>
                /\ o.fractional_unit[1] \in AllowedFractionalUnit) =>
              outcome[1].ok /\ outcome[1].val[1].fractional # <<>>
        /\ (o.fractional_unit # <<>>
                /\ o.fractional_unit[1] \notin AllowedFractionalUnit) =>
              /\ ~outcome[1].ok
              /\ OthersValid(o) =>
                    HasPrefix(outcome[1].err, <<"I", "n", "v", "a", "l", "i", "d", " ", "f", "r", "a", "c", "t", "i", "o", "n", "a", "l", " ", "u", "n", "i", "t", ":", " ">>)

C8_Witness ==
    /\ Translated
    /\ OthersValid(args.options)
    /\ args.options.fractional_unit = <<<<>>>>
    /\ ~outcome[1].ok

(***************************************************************************)
(* C9: matching is exact and case-sensitive: a value that differs from an  *)
(* allowed value only in letter case, surrounding blanks or separator is   *)
(* rejected like any other unrecognized value.                             *)
(***************************************************************************)
NearMiss(o, i) ==
    /\ i \in InvalidFields(o)
    /\ lenient(FieldValue(o, Fields[i])) \in FieldAllowed(Fields[i])

C9_ExactCaseSensitiveMatch ==
    Translated =>
        \A i \in 1 .. Len(Fields) :
            NearMiss(args.options, i) =>
                /\ ~outcome[1].ok
                /\ Fields[i] = FirstInvalid(args.options) =>
                      /\ Contains(outcome[1].err, FieldWords(Fields[i]))
                      /\ EndsInDebugOf(outcome[1].err, FieldValue(args.options, Fields[i]))

C9_Witness ==
    /\ Translated
    /\ InvalidFields(args.options) = {5}
    /\ args.options.direction = <<" ", "a", "u", "t", "o">>
    /\ NearMiss(args.options, 5)
    /\ ~outcome[1].ok

(***************************************************************************)
(* Properties of the exported operations.                                  *)
(***************************************************************************)
Returned(operation) == op = operation /\ pc = "return"

IsPrefix(p, s) == Len(p) <= Len(s) /\ SubSeq(s, 1, Len(p)) = p

NoRepeat(s) == \A i, j \in 1 .. Len(s) : s[i] = s[j] => i = j

UnknownZone(name) == name \notin TimeZoneNames

\* the order of the steps of diff, as claimed
ClaimedDiffOrder ==
    <<"try_from", "parse_start", "in_tz_start", "parse_end", "in_tz_end", "until",
      "span_to_string">>

\* what diff returns if its steps fail in the claimed order
ClaimedDiff(a) ==
    LET options == try_from(a.options) IN
    IF ~options.ok THEN Err(options.err) ELSE
    LET start == parse_DateTime(a.start) IN
    IF ~start.ok THEN Err(start.err) ELSE
    LET start_date == in_tz(start.val[1], a.start_time_zone) IN
    IF ~start_date.ok THEN Err(start_date.err) ELSE
    LET end == parse_DateTime(a.end) IN
    IF ~end.ok THEN Err(end.err) ELSE
    LET end_date == in_tz(end.val[1], a.end_time_zone) IN
    IF ~end_date.ok THEN Err(end_date.err) ELSE
    LET span == until(start_date.val[1], "Unit::Year", end_date.val[1]) IN
    IF ~span.ok THEN Err(span.err) ELSE
    Ok(span_to_string(options.val[1], span.val[1]))

(***************************************************************************)
(* C4: diff runs its fallible steps in the order translate options, parse  *)
(* start, resolve start_time_zone, parse end, resolve end_time_zone,       *)
(* compute the span with largest unit year, format; it returns the error   *)
(* of the first step that fails and a string only when every step          *)
(* succeeded; an unknown time-zone identifier always yields an error.      *)
(***************************************************************************)
C4_DiffStepOrder ==
    /\ op = "diff" => IsPrefix(log, ClaimedDiffOrder)
    /\ Returned("diff") =>
        /\ outcome[1] = ClaimedDiff(args)
        /\ outcome[1].ok <=> log = ClaimedDiffOrder
        /\ (UnknownZone(args.start_time_zone) \/ UnknownZone(args.end_time_zone))
              => ~outcome[1].ok

C4_Witness ==
    /\ Returned("diff")
    /\ try_from(args.options).ok
    /\ args.start = "2024-01-01T00:00:00"
    /\ args.start_time_zone = "Not/AZone"
    /\ args.end = "yesterday"
    /\ ~outcome[1].ok
    /\ outcome[1].err = <<"failed to find time zone in time zone database", "Not/AZone">>
    /\ log = <<"try_from", "parse_start", "in_tz_start">>

(***************************************************************************)
(* C5, as claimed: duration translates the options first, then parses the  *)
(* duration text, then handles relative_date; so with an invalid option    *)
(* and a malformed duration text the call fails with the error of the      *)
(* options translation.                                                    *)
(***************************************************************************)
C5_OptionsTranslatedFirst ==
    (Returned("duration") /\ ~try_from(args.options).ok
        /\ ~parse_Span(args.duration).ok) =>
        /\ log[1] = "try_from"
        /\ outcome[1] = Err(try_from(args.options).err)

(***************************************************************************)
(* C5, amended: duration parses the duration text first, then translates   *)
(* the options, then (only if relative_date is present) parses the         *)
(* relative date and rounds; so with an invalid option and a malformed     *)
(* duration text the call fails with the error of the span parser, and the *)
(* error of the options translation is returned only when the duration     *)
(* text parses.                                                            *)
(***************************************************************************)
C5_DurationParsedFirst ==
    /\ op = "duration" =>
          \/ IsPrefix(log, <<"parse", "try_from", "parse_relative", "round",
                             "span_to_string">>)
          \/ /\ log = <<"parse", "try_from", "parse_relative", "span_to_string">>
             /\ args.relative_date = <<>>
    /\ (Returned("duration") /\ ~parse_Span(args.duration).ok) =>
          outcome[1] = Err(parse_Span(args.duration).err)
    /\ (Returned("duration") /\ parse_Span(args.duration).ok
            /\ ~try_from(args.options).ok) =>
          outcome[1] = Err(try_from(args.options).err)
    /\ (op = "duration" /\ args.relative_date = <<>>) =>
          \A i \in 1 .. Len(log) : log[i] # "round"

C5_Witness ==
    /\ Returned("duration")
    /\ ~try_from(args.options).ok
    /\ ~parse_Span(args.duration).ok
    /\ outcome[1] = Err(<<"failed to parse span", "soon">>)
    /\ log = <<"parse">>

(***************************************************************************)
(* C6: in duration with valid options and valid duration text: without a   *)
(* relative_date the parsed span is formatted unmodified and no rounding   *)
(* step runs; with a relative_date that parses, what is formatted is the   *)
(* parsed span rounded relative to that date with largest unit year (or    *)
(* the rounding error is returned); with a malformed relative_date the     *)
(* call fails.  The largest unit is year for every Options value.          *)
(***************************************************************************)
C6_RoundingOnlyWithRelativeDate ==
    (Returned("duration") /\ try_from(args.options).ok
        /\ parse_Span(args.duration).ok) =>
        LET printer == try_from(args.options).val[1]
            span == parse_Span(args.duration).val[1]
        IN  IF args.relative_date = <<>>
            THEN /\ outcome[1] = Ok(span_to_string(printer, span))
                 /\ \A i \in 1 .. Len(log) : log[i] # "round"
            ELSE LET relative == parse_Date(args.relative_date[1]) IN
                 IF ~relative.ok
                 THEN outcome[1] = Err(relative.err)
                 ELSE LET rounded ==
                            round(span, [ relative |-> relative.val[1],
                                          largest |-> "Unit::Year" ])
                      IN  IF rounded.ok
                          THEN outcome[1] = Ok(span_to_string(printer, rounded.val[1]))
                          ELSE outcome[1] = Err(rounded.err)

C6_Witness ==
    /\ Returned("duration")
    /\ args.duration = "P400D"
    /\ args.relative_date = <<"2024-02-01">>
    /\ outcome[1].ok
    /\ outcome[1].val[1].span = Span(1, 1, 1, 6)
    /\ outcome[1].val[1].printer.zero_unit = "Unit::Hour"

(***************************************************************************)
(* C7: every call of diff and duration ends in a formatted string or an    *)
(* error.  When a step fails the call ends with that error: the failing    *)
(* step is the last one run, the formatter is not invoked, no step runs    *)
(* twice; a string is returned only if every input the call used was       *)
(* valid, so no default replaces a failed input.                           *)
(***************************************************************************)
\* every input the call reads is one its parser or lookup accepts
InputsAccepted ==
    IF op = "diff"
    THEN /\ try_from(args.options).ok
         /\ parse_DateTime(args.start).ok
         /\ parse_DateTime(args.end).ok
         /\ ~UnknownZone(args.start_time_zone)
         /\ ~UnknownZone(args.end_time_zone)
    ELSE /\ try_from(args.options).ok
         /\ parse_Span(args.duration).ok
         /\ args.relative_date # <<>> => parse_Date(args.relative_date[1]).ok

C10_DurationDeterministic ==
    (Returned("duration") /\ prev # <<>> /\ prev[1].args = args) =>
        prev[1].outcome = outcome

C10_Witness ==
    /\ Returned("duration")
    /\ prev # <<>>
    /\ prev[1].args = args
    /\ args.duration = "P400D"
    /\ args.relative_date = <<"2024-03-01">>
    /\ now # StartOfRun
    /\ outcome[1].ok
    /\ outcome[1].val[1].span = Span(1, 1, 1, 4)

====
